---- MODULE Spec2Model ----
(***************************************************************************)
(* A model of epic-linker: link(rootBuilder) of src/src/index.js and the   *)
(* Bundle nodes of src/src/bundle.js, with the reducer combinators of      *)
(* src/src/utils.js.                                                       *)
(*                                                                         *)
(* Builders are user code: every declaration call a builder can make is an *)
(* action whose arguments are drawn from small sets.  link itself is       *)
(* synchronous; its steps after the root builder has returned are taken in *)
(* the order of the source, one action per step, tracked by pc.            *)
(***************************************************************************)
EXTENDS Naturals, Sequences, FiniteSets

VARIABLES
  hasProxy,           \* typeof Proxy === 'function' in this environment
  pc,                 \* link's position
  thrown,             \* the last exception thrown ("none": the last call returned)
  nodes,              \* the Bundle objects, in creation order (rootBundle is 1)
  stack,              \* the bundles whose builders are executing, innermost last
  scopes,             \* the objects behind bundle.locals and pack() targets
  globalScope,        \* name -> published value
  typeMap,            \* name -> value | selector | action | view
  nameForActionType,  \* action type -> action name
  enhancers,          \* flat list of enhancers
  useQueue,           \* [target, names] directives
  actionMap,          \* action type -> composed action reducer
  reducer,            \* the store reducer link returns
  enhancer,           \* the composed store enhancer
  store,              \* the state held by the store
  nCalls,             \* declaration calls made so far on bundles not sealed
  dispatches,         \* the applications of the store reducer made so far
  finalized,          \* the calls of finalize made so far, with what they ran
  runs                \* the root tasks start() has returned, with their tasks

vars == <<hasProxy, pc, thrown, nodes, stack, scopes, globalScope, typeMap,
          nameForActionType, enhancers, useQueue, actionMap, reducer, enhancer,
          store, nCalls, dispatches, finalized, runs>>

-----------------------------------------------------------------------------
(* Bounds of the model. *)

MaxNodes == 3
MaxCalls == 2
MaxNameCalls == 3
MaxReducerCalls == 4
MaxDispatch == 1
MaxFinalCalls == 4
MaxFinalize == 2
MaxSagaCalls == 4
MaxStart == 1
MaxReturnedCalls == 3
MaxComposeCalls == 3

(* The names, action type strings and other inputs builders draw from. *)
Names == {"a", "b"}
ActionTypes == {"T1", "T2"}
InitType == "@@redux/INIT"

-----------------------------------------------------------------------------
(* JavaScript values.  Every value carries its typeof; a view additionally *)
(* carries the selector it was connected with and its displayName.         *)

Value(t, i) == [typeof |-> t, id |-> i, connected |-> "", displayName |-> <<>>]
undefined == Value("undefined", "")
Str(s) == Value("string", s)
Fn(f) == Value("function", f)
Num(n) == Value("number", n)

theValue == Num("1")
theSelector == Fn("selector")
theView == Fn("view")

EmptyMap == [k \in {} |-> undefined]
Put(m, k, v) == [x \in DOMAIN m \cup {k} |-> IF x = k THEN v ELSE m[x]]
Has(m, k) == k \in DOMAIN m
Last(s) == s[Len(s)]

RECURSIVE Concat(_)
Concat(ss) == IF ss = <<>> THEN <<>> ELSE Head(ss) \o Concat(Tail(ss))

-----------------------------------------------------------------------------
(* utils.js *)

(* makeSafeProxy(obj, onError) read of `property`: the value, or the error *)
(* onError throws; without Proxy the bare object answers undefined.        *)
SafeGetThrows(target, property) == hasProxy /\ ~Has(target, property)
SafeGet(target, property) ==
  IF Has(target, property) THEN target[property] ELSE undefined

(* A reducer is null or a function; a function is the sequence of the      *)
(* elementary reducers it applies, first applied first.  An elementary     *)
(* reducer is the function passed to the declaration call number id, made  *)
(* through the method `via`; id 0 is link's actionReducer.                 *)
null == [null |-> TRUE, steps |-> <<>>]
Reducer(id, via) == [null |-> FALSE, steps |-> <<[id |-> id, via |-> via]>>]

directComposeIdentity(secondReducer, firstReducer) ==
  IF firstReducer.null /\ secondReducer.null THEN [null |-> FALSE, steps |-> <<>>]
  ELSE IF firstReducer.null THEN secondReducer
  ELSE IF secondReducer.null THEN firstReducer
  ELSE [null |-> FALSE, steps |-> firstReducer.steps \o secondReducer.steps]

directCompose(secondReducer, firstReducer) ==
  IF firstReducer.null THEN secondReducer
  ELSE IF secondReducer.null THEN firstReducer
  ELSE [null |-> FALSE, steps |-> firstReducer.steps \o secondReducer.steps]

reverseComposeSecondFirst(firstReducer, secondReducer) ==
  directCompose(firstReducer, secondReducer)

reverseCompose(firstReducer, secondReducer) ==
  IF firstReducer.null THEN secondReducer
  ELSE IF secondReducer.null THEN firstReducer
  ELSE [null |-> FALSE, steps |-> firstReducer.steps \o secondReducer.steps]

(* [x1,...,xn].reduce(f, a) = f(f(f(a,x1), ...), xn) *)
RECURSIVE reduce(_, _, _)
reduce(f(_, _), xs, a) ==
  IF xs = <<>> THEN a ELSE reduce(f, Tail(xs), f(a, Head(xs)))

-----------------------------------------------------------------------------
(* index.js: the functions of the linker object *)

(* The characters of the strings whose characters the code looks at. *)
Chars(s) ==
  CASE s = "views" -> <<"v", "i", "e", "w", "s">>
    [] s = "view" -> <<"v", "i", "e", "w">>
    [] s = "value" -> <<"v", "a", "l", "u", "e">>
    [] s = "action" -> <<"a", "c", "t", "i", "o", "n">>
    [] s = "selector" -> <<"s", "e", "l", "e", "c", "t", "o", "r">>
    [] s = "undefined" -> <<"u", "n", "d", "e", "f", "i", "n", "e", "d">>

(* typeMap.get(name): the type, or undefined *)
typeMapGet(name) == IF Has(typeMap, name) THEN typeMap[name] ELSE "undefined"

(* Array.prototype.indexOf(x) !== -1: some element is x (undefined is no   *)
(* element of the filter).                                                  *)
ArrayHas(array, x) == \E i \in 1..Len(array) : array[i] = x

(* String.prototype.indexOf(x) !== -1: String(x) occurs in the string. *)
StringHas(string, x) ==
  LET s == Chars(string)
      t == Chars(x)
  IN \E i \in 0..Len(s) :
       /\ i + Len(t) <= Len(s)
       /\ \A j \in 1..Len(t) : s[i + j] = t[j]

(* The two filters link passes to injectAll: an array, then a string. *)
FirstFilter == [array |-> TRUE, items |-> <<"action", "selector", "value">>, string |-> ""]
ViewsFilter == [array |-> FALSE, items |-> <<>>, string |-> "views"]

FilteredWholeString(typeFilter, type) ==
  IF typeFilter.array THEN ~ArrayHas(typeFilter.items, type)
  ELSE typeFilter.string # type

(* -1 === typeFilter.indexOf(type) *)
Filtered(typeFilter, type) ==
  IF typeFilter.array THEN ~ArrayHas(typeFilter.items, type)
  ELSE ~StringHas(typeFilter.string, type)

declareActionTypeNoCheck(actionType) == FALSE

declareActionTypeThrows(actionType) == Has(nameForActionType, actionType)

publishNoCheck(scope, name) == FALSE

publishThrows(scope, name) == Has(scope, name)

(* inject(typeFilter, locals, name): skipped, thrown, or the new locals *)
injectSkips(typeFilter, name) == Filtered(typeFilter, typeMapGet(name))
injectThrows(typeFilter, name) ==
  ~injectSkips(typeFilter, name) /\ ~Has(globalScope, name)
injectNothing(typeFilter, locals, name) == locals

injectEverything(typeFilter, locals, name) ==
  IF injectSkips(typeFilter, name) THEN locals
  ELSE [k \in DOMAIN locals \cup DOMAIN globalScope |->
          IF Has(globalScope, k) THEN globalScope[k] ELSE locals[k]]

inject(typeFilter, locals, name) ==
  IF injectSkips(typeFilter, name) THEN locals
  ELSE Put(locals, name, globalScope[name])

(* injectAll(typeFilter), over the flattened (target, name) pairs of the   *)
(* useQueue in queue order; stops at the first throw.                      *)
RECURSIVE UsePairs(_)
UsePairs(queue) ==
  IF queue = <<>> THEN <<>>
  ELSE [i \in 1..Len(Head(queue).names) |->
          [target |-> Head(queue).target, name |-> Head(queue).names[i]]]
       \o UsePairs(Tail(queue))

RECURSIVE injectPairs(_, _, _)
injectPairs(typeFilter, pairs, acc) ==
  IF pairs = <<>> THEN acc
  ELSE LET p == Head(pairs) IN
    IF injectThrows(typeFilter, p.name)
    THEN [acc EXCEPT !.thrown = "undefined dependency"]
    ELSE injectPairs(typeFilter, Tail(pairs),
           [acc EXCEPT !.scopes[p.target] = inject(typeFilter, @, p.name)])

injectAll(typeFilter) ==
  injectPairs(typeFilter, UsePairs(useQueue), [thrown |-> "none", scopes |-> scopes])

-----------------------------------------------------------------------------
(* bundle.js: the Bundle constructor and the calls a builder makes *)

Bundle(locals) ==
  [locals |-> locals, bundles |-> <<>>, earlyReducers |-> <<>>,
   actionReducers |-> <<>>, lateReducers |-> <<>>, views |-> <<>>,
   defers |-> <<>>, sagas |-> <<>>, sealed |-> FALSE]

rootBundle == 1
Top == Last(stack)

assertReturnedThrows(b) ==
  nodes[b].sealed \/ \A i \in 1..Len(stack) : stack[i] # b

assertNotSealedThrows(b) == nodes[b].sealed

linkerVars == <<globalScope, typeMap, nameForActionType, enhancers, useQueue>>
linkedVars == <<actionMap, reducer, enhancer, store, dispatches, finalized, runs>>

(* A call is made by a running builder, or by anyone once link returned. *)
Call(b) ==
  /\ pc \in {"build", "linked"}
  /\ b \in 1..Len(nodes)

(* The call throws: out of the builder and so out of link while building. *)
Throw(e) ==
  /\ thrown' = e
  /\ pc' = IF pc = "build" THEN "failed" ELSE pc
  /\ nCalls' = IF e = "sealed" THEN nCalls ELSE nCalls + 1

Returns ==
  /\ thrown' = "none"
  /\ pc' = pc
  /\ nCalls' = nCalls + 1

declareUse(target, names) == Append(useQueue, [target |-> target, names |-> names])

include(b) ==
  /\ Call(b)
  /\ assertNotSealedThrows(b) \/ Len(nodes) < MaxNodes
  /\ IF assertNotSealedThrows(b)
     THEN Throw("sealed") /\ UNCHANGED <<nodes, stack, scopes>>
     ELSE /\ scopes' = Append(scopes, EmptyMap)
          /\ nodes' = Append([nodes EXCEPT ![b].bundles = Append(@, Len(nodes) + 1)],
                             Bundle(Len(scopes) + 1))
          /\ stack' = Append(stack, Len(nodes) + 1)
          /\ Returns
  /\ UNCHANGED <<hasProxy, linkerVars, linkedVars>>

(* The builder on top of the stack returns; when it is the root builder,   *)
(* link goes on to seal the tree.                                          *)
builderReturns ==
  /\ pc \in {"build", "linked"}
  /\ stack # <<>>
  /\ stack' = SubSeq(stack, 1, Len(stack) - 1)
  /\ pc' = IF pc = "build" /\ Len(stack) = 1 THEN "seal" ELSE pc
  /\ UNCHANGED <<hasProxy, thrown, nodes, scopes, linkerVars, linkedVars, nCalls>>

use(b, names) ==
  /\ Call(b)
  /\ IF assertNotSealedThrows(b)
     THEN Throw("sealed") /\ UNCHANGED useQueue
     ELSE useQueue' = declareUse(nodes[b].locals, names) /\ Returns
  /\ UNCHANGED <<hasProxy, nodes, stack, scopes, globalScope, typeMap,
                 nameForActionType, enhancers, linkedVars>>

pack(b, names) ==
  /\ Call(b)
  /\ IF assertNotSealedThrows(b)
     THEN Throw("sealed") /\ UNCHANGED <<useQueue, scopes>>
     ELSE /\ scopes' = Append(scopes, EmptyMap)
          /\ useQueue' = declareUse(Len(scopes) + 1, names)
          /\ Returns
  /\ UNCHANGED <<hasProxy, nodes, stack, globalScope, typeMap,
                 nameForActionType, enhancers, linkedVars>>

(* defineValue and defineSelector: publish(type, name, value), use(name) *)
define(b, type, name, value) ==
  /\ Call(b)
  /\ IF assertNotSealedThrows(b)
     THEN Throw("sealed") /\ UNCHANGED <<globalScope, typeMap, useQueue>>
     ELSE IF publishThrows(globalScope, name)
     THEN Throw("linker conflict") /\ UNCHANGED <<globalScope, typeMap, useQueue>>
     ELSE /\ typeMap' = Put(typeMap, name, type)
          /\ globalScope' = Put(globalScope, name, value)
          /\ useQueue' = declareUse(nodes[b].locals, <<name>>)
          /\ Returns
  /\ UNCHANGED <<hasProxy, nodes, stack, scopes, nameForActionType, enhancers,
                 linkedVars>>

defineValue(b, name, value) == define(b, "value", name, value)

defineSelector(b, name, value) == define(b, "selector", name, value)

defineAction(b, name, actionType) ==
  /\ Call(b)
  /\ IF assertNotSealedThrows(b)
     THEN /\ Throw("sealed")
          /\ UNCHANGED <<globalScope, typeMap, useQueue, nameForActionType>>
     ELSE IF declareActionTypeThrows(actionType)
     THEN /\ Throw("action type conflict")
          /\ UNCHANGED <<globalScope, typeMap, useQueue, nameForActionType>>
     ELSE /\ nameForActionType' = Put(nameForActionType, actionType, name)
          /\ IF publishThrows(globalScope, name)
             THEN /\ Throw("linker conflict")
                  /\ UNCHANGED <<globalScope, typeMap, useQueue>>
             ELSE /\ typeMap' = Put(typeMap, name, "action")
                  /\ globalScope' = Put(globalScope, name, actionType)
                  /\ useQueue' = declareUse(nodes[b].locals, <<name>>)
                  /\ Returns
  /\ UNCHANGED <<hasProxy, nodes, stack, scopes, enhancers, linkedVars>>

(* defineView(name, selector, view); defineView(name, view) passes         *)
(* selector = undefined after the swap of lines 70-73.                     *)
defineView(b, name, selector, view) ==
  /\ Call(b)
  /\ IF assertNotSealedThrows(b)
     THEN Throw("sealed") /\ UNCHANGED <<useQueue, nodes>>
     ELSE /\ useQueue' = declareUse(nodes[b].locals, <<name>>)
          /\ nodes' = [nodes EXCEPT ![b].views =
                         Append(@, [name |-> name, view |-> view, selector |-> selector])]
          /\ Returns
  /\ UNCHANGED <<hasProxy, stack, scopes, globalScope, typeMap,
                 nameForActionType, enhancers, linkedVars>>

(* addReducer(name, reducer): the reducer is the function this call passes *)
addReducer(b, name) ==
  /\ Call(b)
  /\ IF assertNotSealedThrows(b)
     THEN Throw("sealed") /\ UNCHANGED <<useQueue, nodes>>
     ELSE /\ useQueue' = declareUse(nodes[b].locals, <<name>>)
          /\ nodes' = [nodes EXCEPT ![b].actionReducers =
                         Append(@, [name |-> name, reducer |-> Reducer(nCalls + 1, "addReducer")])]
          /\ Returns
  /\ UNCHANGED <<hasProxy, stack, scopes, globalScope, typeMap,
                 nameForActionType, enhancers, linkedVars>>

(* The calls that only push onto one list of the bundle. *)
Push(b, list, x) ==
  /\ Call(b)
  /\ IF assertNotSealedThrows(b)
     THEN Throw("sealed") /\ UNCHANGED nodes
     ELSE nodes' = [nodes EXCEPT ![b][list] = Append(@, x)] /\ Returns
  /\ UNCHANGED <<hasProxy, stack, scopes, linkerVars, linkedVars>>

(* addReducer(fn): reducer === undefined, so name is a late reducer *)
addReducerFn(b) == Push(b, "lateReducers", Reducer(nCalls + 1, "addReducer"))

addEarlyReducer(b) == Push(b, "earlyReducers", Reducer(nCalls + 1, "addEarlyReducer"))

addLateReducer(b) == Push(b, "lateReducers", Reducer(nCalls + 1, "addLateReducer"))

addSaga(b) == Push(b, "sagas", nCalls + 1)

defer(b) == Push(b, "defers", nCalls + 1)

addEnhancer(b) ==
  /\ Call(b)
  /\ IF assertNotSealedThrows(b)
     THEN Throw("sealed") /\ UNCHANGED enhancers
     ELSE enhancers' = Append(enhancers, nCalls + 1) /\ Returns
  /\ UNCHANGED <<hasProxy, nodes, stack, scopes, globalScope, typeMap,
                 nameForActionType, useQueue, linkedVars>>

-----------------------------------------------------------------------------
(* bundle.js: the operations link runs over the tree *)

Children(b) == nodes[b].bundles

(* _seal: the bundles it marks, this one and recursively the included ones *)
sealOnlyThis(b) == {b}

RECURSIVE seal(_)
seal(b) == {b} \cup UNION {seal(Children(b)[i]) : i \in 1..Len(Children(b))}

(* The order in which a depth-first walk (own entries, then the included   *)
(* bundles in inclusion order) meets the entries of one list of the nodes. *)
RECURSIVE Walk(_, _)
Walk(b, list) ==
  [i \in 1..Len(nodes[b][list]) |-> [bundle |-> b, entry |-> nodes[b][list][i]]]
  \o Concat([i \in 1..Len(Children(b)) |-> Walk(Children(b)[i], list)])

(* connect(selector)(view) and the displayName assignment of line 139 *)
connect(selector, view) == [view EXCEPT !.connected = selector.id]
displayName(view, name) == [view EXCEPT !.displayName = <<"View(", name, ")">>]

linkViewGlobal(item, acc) ==
  LET name == item.entry.name
      given == item.entry.selector
      byName == given.typeof = "string"
      selector == IF byName THEN SafeGet(acc.globalScope, given.id) ELSE given
      view == IF given = undefined THEN item.entry.view
              ELSE connect(selector, item.entry.view)
  IN IF given # undefined /\ selector.typeof # "function"
     THEN [acc EXCEPT !.thrown = "invalid selector"]
     ELSE IF publishThrows(acc.globalScope, name)
     THEN [acc EXCEPT !.thrown = "linker conflict"]
     ELSE [acc EXCEPT !.typeMap = Put(@, name, "view"),
                      !.globalScope = Put(@, name, displayName(view, name))]

(* One iteration of the loop of _linkViews, on acc = the exception thrown  *)
(* so far and the global scope and type map.                               *)
linkView(item, acc) ==
  LET name == item.entry.name
      given == item.entry.selector
      locals == scopes[nodes[item.bundle].locals]
      byName == given.typeof = "string"
      selector == IF byName THEN SafeGet(locals, given.id) ELSE given
      view == IF given = undefined THEN item.entry.view
              ELSE connect(selector, item.entry.view)
  IN IF given # undefined /\ byName /\ SafeGetThrows(locals, given.id)
     THEN [acc EXCEPT !.thrown = "undeclared dependency"]
     ELSE IF given # undefined /\ selector.typeof # "function"
     THEN [acc EXCEPT !.thrown = "invalid selector"]
     ELSE IF publishThrows(acc.globalScope, name)
     THEN [acc EXCEPT !.thrown = "linker conflict"]
     ELSE [acc EXCEPT !.typeMap = Put(@, name, "view"),
                      !.globalScope = Put(@, name, displayName(view, name))]

RECURSIVE linkViewsFrom(_, _)
linkViewsFrom(items, acc) ==
  IF items = <<>> \/ acc.thrown # "none" THEN acc
  ELSE linkViewsFrom(Tail(items), linkView(Head(items), acc))

linkViews(b) ==
  linkViewsFrom(Walk(b, "views"),
                [thrown |-> "none", globalScope |-> globalScope, typeMap |-> typeMap])

(* actionMap.get(actionType): undefined is falsy, as null is *)
actionMapGet(map, actionType) == IF Has(map, actionType) THEN map[actionType] ELSE null

(* One iteration of the loop of _buildActionMap. *)
buildAction(item, acc) ==
  LET name == item.entry.name
      locals == scopes[nodes[item.bundle].locals]
      actionType == SafeGet(locals, name)
      prevReducer == actionMapGet(acc.actionMap, actionType)
  IN IF SafeGetThrows(locals, name)
     THEN [acc EXCEPT !.thrown = "undeclared dependency"]
     ELSE [acc EXCEPT !.actionMap =
             Put(@, actionType, reverseCompose(prevReducer, item.entry.reducer))]

RECURSIVE buildActionMapFrom(_, _)
buildActionMapFrom(items, acc) ==
  IF items = <<>> \/ acc.thrown # "none" THEN acc
  ELSE buildActionMapFrom(Tail(items), buildAction(Head(items), acc))

ReducerOrder(b) == Walk(b, "actionReducers")

buildActionMap(b) ==
  buildActionMapFrom(ReducerOrder(b), [thrown |-> "none", actionMap |-> EmptyMap])

RECURSIVE earlyReducerDirect(_)
earlyReducerDirect(b) ==
  reduce(directCompose,
         nodes[b].earlyReducers
           \o [i \in 1..Len(Children(b)) |-> earlyReducerDirect(Children(b)[i])],
         null)

RECURSIVE earlyReducer(_)
earlyReducer(b) ==
  reduce(reverseCompose,
         nodes[b].earlyReducers
           \o [i \in 1..Len(Children(b)) |-> earlyReducer(Children(b)[i])],
         null)

RECURSIVE lateReducerReverse(_)
lateReducerReverse(b) ==
  reduce(reverseCompose,
         nodes[b].lateReducers
           \o [i \in 1..Len(Children(b)) |-> lateReducerReverse(Children(b)[i])],
         null)

RECURSIVE lateReducer(_)
lateReducer(b) ==
  reduce(directCompose,
         nodes[b].lateReducers
           \o [i \in 1..Len(Children(b)) |-> lateReducer(Children(b)[i])],
         null)

-----------------------------------------------------------------------------
(* index.js: link after the root builder has returned *)

actionReducer == Reducer(0, "link")

StagesActionFirst(early, action, late) == <<action, early, late>>

(* The stages of the store reducer, in the order link lists them. *)
Stages(early, action, late) == <<early, action, late>>

(* reducer(state, action): a state is the sequence of the reducers that    *)
(* produced it, each reducer appending itself; actionReducer applies the   *)
(* chain actionMap holds for action.type, if any.                          *)
RECURSIVE RunLosesState(_, _, _, _)
RunLosesState(steps, map, state, type) ==
  IF steps = <<>> THEN state
  ELSE RunLosesState(Tail(steps), map,
           IF Head(steps).id = 0
           THEN IF Has(map, type) THEN RunLosesState(map[type].steps, map, state, type)
                ELSE <<>>
           ELSE Append(state, Head(steps).id),
           type)

RECURSIVE Run(_, _, _, _)
Run(steps, map, state, type) ==
  IF steps = <<>> THEN state
  ELSE Run(Tail(steps), map,
           IF Head(steps).id = 0
           THEN IF Has(map, type) THEN Run(map[type].steps, map, state, type) ELSE state
           ELSE Append(state, Head(steps).id),
           type)

(* rootBundle._seal() *)
Seal ==
  /\ pc = "seal"
  /\ nodes' = [b \in 1..Len(nodes) |->
                 IF b \in seal(rootBundle) THEN [nodes[b] EXCEPT !.sealed = TRUE]
                 ELSE nodes[b]]
  /\ pc' = "inject"
  /\ UNCHANGED <<hasProxy, thrown, stack, scopes, linkerVars, linkedVars, nCalls>>

(* injectAll(['action', 'selector', 'value']) *)
InjectAll ==
  /\ pc = "inject"
  /\ LET r == injectAll(FirstFilter) IN
       /\ scopes' = r.scopes
       /\ thrown' = r.thrown
       /\ pc' = IF r.thrown = "none" THEN "linkViews" ELSE "failed"
  /\ UNCHANGED <<hasProxy, nodes, stack, linkerVars, linkedVars, nCalls>>

(* rootBundle._linkViews() *)
LinkViews ==
  /\ pc = "linkViews"
  /\ LET r == linkViews(rootBundle) IN
       /\ globalScope' = r.globalScope
       /\ typeMap' = r.typeMap
       /\ thrown' = r.thrown
       /\ pc' = IF r.thrown = "none" THEN "injectViews" ELSE "failed"
  /\ UNCHANGED <<hasProxy, nodes, stack, scopes, nameForActionType, enhancers,
                 useQueue, linkedVars, nCalls>>

(* injectAll('views') *)
InjectAllViews ==
  /\ pc = "injectViews"
  /\ LET r == injectAll(ViewsFilter) IN
       /\ scopes' = r.scopes
       /\ thrown' = r.thrown
       /\ pc' = IF r.thrown = "none" THEN "reduce" ELSE "failed"
  /\ UNCHANGED <<hasProxy, nodes, stack, linkerVars, linkedVars, nCalls>>

(* The action map and the store reducer, lines 135-148. *)
ComposeReducer ==
  /\ pc = "reduce"
  /\ LET r == buildActionMap(rootBundle) IN
       /\ actionMap' = r.actionMap
       /\ thrown' = r.thrown
       /\ IF r.thrown = "none"
          THEN /\ reducer' = reduce(reverseCompose,
                                    Stages(earlyReducer(rootBundle), actionReducer,
                                           lateReducer(rootBundle)),
                                    null)
               /\ pc' = "enhance"
          ELSE /\ reducer' = reducer
               /\ pc' = "failed"
  /\ UNCHANGED <<hasProxy, nodes, stack, scopes, linkerVars, enhancer, store,
                 dispatches, finalized, runs, nCalls>>

(* An enhancer is the sequence of the enhancers it composes, outermost     *)
(* first: the one passed to the declaration call number id, or             *)
(* applyMiddleware(sagaMiddleware), which is number 0.                     *)
sagaMiddleware == 0
applyMiddleware(middleware) == <<middleware>>

composeInside(enhancer_, other) == <<other>> \o enhancer_

(* compose(enhancer, other) of line 154 *)
compose(enhancer_, other) == Append(enhancer_, other)

(* The enhancer of lines 151-155, the store with its null state, and       *)
(* link's return.                                                          *)
CreateStore ==
  /\ pc = "enhance"
  /\ enhancer' = reduce(compose, enhancers, applyMiddleware(sagaMiddleware))
  /\ store' = <<>>
  /\ pc' = "linked"
  /\ UNCHANGED <<hasProxy, thrown, nodes, stack, scopes, linkerVars, actionMap,
                 reducer, dispatches, finalized, runs, nCalls>>

(* The store reducer is applied to the store's state and an action. *)
Dispatch(type) ==
  /\ pc = "linked"
  /\ Len(dispatches) < MaxDispatch
  /\ store' = Run(reducer.steps, actionMap, store, type)
  /\ dispatches' = Append(dispatches, [type |-> type, before |-> store, after |-> store'])
  /\ UNCHANGED <<hasProxy, pc, thrown, nodes, stack, scopes, linkerVars, actionMap,
                 reducer, enhancer, finalized, runs, nCalls>>

(* _runDefers(): the calls it makes, this bundle's callbacks first, then   *)
(* those of the included bundles; a callback is called with .call(), so    *)
(* with no argument, whatever finalize was given.                          *)
RECURSIVE runDefersOwnLast(_, _)
runDefersOwnLast(b, args) ==
  Concat([i \in 1..Len(Children(b)) |-> runDefersOwnLast(Children(b)[i], args)])
  \o [i \in 1..Len(nodes[b].defers) |-> [callback |-> nodes[b].defers[i], args |-> <<>>]]

RECURSIVE runDefers(_, _)
runDefers(b, args) ==
  [i \in 1..Len(nodes[b].defers) |-> [callback |-> nodes[b].defers[i], args |-> <<>>]]
  \o Concat([i \in 1..Len(Children(b)) |-> runDefers(Children(b)[i], args)])

(* finalize(...args), which link returns: `failing` is the call whose      *)
(* callback throws (0: every callback returns); the throw ends finalize.   *)
Finalize(args, failing) ==
  /\ pc = "linked"
  /\ Len(finalized) < MaxFinalize
  /\ LET calls == runDefers(rootBundle, args) IN
       /\ failing \in 0..Len(calls)
       /\ finalized' = Append(finalized,
            [args |-> args,
             ran |-> IF failing = 0 THEN calls ELSE SubSeq(calls, 1, failing),
             threw |-> failing # 0])
  /\ thrown' = IF failing = 0 THEN "none" ELSE "callback"
  /\ UNCHANGED <<hasProxy, pc, nodes, stack, scopes, linkerVars, actionMap, reducer,
                 enhancer, store, dispatches, runs, nCalls>>

(* _saga(): the effects the bundle's generator yields, call(saga) for its  *)
(* own sagas, then call(bundle._saga()) for the included bundles.  An      *)
(* effect is the call of a saga added by the declaration call number       *)
(* `call`, or (call = 0) of a generator that yields `effects`.             *)
sagaOwnOnly(b) ==
  [i \in 1..Len(nodes[b].sagas) |-> [call |-> nodes[b].sagas[i], effects |-> <<>>]]

RECURSIVE saga(_)
saga(b) ==
  [i \in 1..Len(nodes[b].sagas) |-> [call |-> nodes[b].sagas[i], effects |-> <<>>]]
  \o [i \in 1..Len(Children(b)) |-> [call |-> 0, effects |-> saga(Children(b)[i])]]

rootSaga == saga(rootBundle)

(* The tasks the saga middleware starts for `yield effects`: one for every *)
(* saga called, those of a called generator in place of the generator.     *)
RECURSIVE Forked(_)
Forked(effects) ==
  Concat([i \in 1..Len(effects) |->
            IF effects[i].call # 0 THEN <<[saga |-> effects[i].call, state |-> "running"]>>
            ELSE Forked(effects[i].effects)])

(* start(): sagaMiddleware.run(rootSaga).  The root task is done at once   *)
(* when no saga is called.                                                 *)
Start ==
  /\ pc = "linked"
  /\ Len(runs) < MaxStart
  /\ LET tasks == Forked(rootSaga) IN
       runs' = Append(runs, [tasks |-> tasks,
                             done |-> IF tasks = <<>> THEN "resolved" ELSE "pending",
                             error |-> 0])
  /\ UNCHANGED <<hasProxy, pc, thrown, nodes, stack, scopes, linkerVars, actionMap,
                 reducer, enhancer, store, dispatches, finalized, nCalls>>

(* A running saga returns: the generators that called it, up to the root   *)
(* task, complete when all the effects they yielded have completed.        *)
SagaReturns(r, k) ==
  /\ r \in 1..Len(runs)
  /\ k \in 1..Len(runs[r].tasks)
  /\ runs[r].tasks[k].state = "running"
  /\ LET tasks == [runs[r].tasks EXCEPT ![k].state = "done"] IN
       runs' = [runs EXCEPT ![r].tasks = tasks,
                            ![r].done = IF \A i \in 1..Len(tasks) : tasks[i].state = "done"
                                        THEN "resolved" ELSE @]
  /\ UNCHANGED <<hasProxy, pc, thrown, nodes, stack, scopes, linkerVars, actionMap,
                 reducer, enhancer, store, dispatches, finalized, nCalls>>

(* A running saga throws: the error goes up through the generators that    *)
(* called it to the root task, which is rejected with it, and the effects  *)
(* still running beside it are cancelled.                                  *)
SagaThrows(r, k) ==
  /\ r \in 1..Len(runs)
  /\ k \in 1..Len(runs[r].tasks)
  /\ runs[r].tasks[k].state = "running"
  /\ runs' = [runs EXCEPT
       ![r].tasks = [i \in 1..Len(@) |->
                       IF i = k THEN [@[i] EXCEPT !.state = "failed"]
                       ELSE IF @[i].state = "running" THEN [@[i] EXCEPT !.state = "cancelled"]
                       ELSE @[i]],
       ![r].done = "rejected",
       ![r].error = runs[r].tasks[k].saga]
  /\ UNCHANGED <<hasProxy, pc, thrown, nodes, stack, scopes, linkerVars, actionMap,
                 reducer, enhancer, store, dispatches, finalized, nCalls>>

-----------------------------------------------------------------------------
(* The specifications *)

Init ==
  /\ hasProxy \in BOOLEAN
  /\ pc = "build"
  /\ thrown = "none"
  /\ nodes = <<Bundle(1)>>
  /\ stack = <<rootBundle>>
  /\ scopes = <<EmptyMap>>
  /\ globalScope = EmptyMap
  /\ typeMap = EmptyMap
  /\ nameForActionType = EmptyMap
  /\ enhancers = <<>>
  /\ useQueue = <<>>
  /\ actionMap = EmptyMap
  /\ reducer = null
  /\ enhancer = <<>>
  /\ store = <<>>
  /\ nCalls = 0
  /\ dispatches = <<>>
  /\ finalized = <<>>
  /\ runs = <<>>

UseArgs == {<<"a">>, <<"a", "b">>}
Selectors == {undefined, theSelector, Str("a")}
Bundles == 1..Len(nodes)

(* Every call, on any bundle a builder can hold, while the builders run    *)
(* and after link has returned.                                            *)
More(b) == nCalls < MaxCalls \/ nodes[b].sealed

Next ==
  \/ \E b \in Bundles : More(b) /\ include(b)
  \/ builderReturns
  \/ \E b \in Bundles, names \in UseArgs : More(b) /\ use(b, names)
  \/ \E b \in Bundles, names \in UseArgs : More(b) /\ pack(b, names)
  \/ \E b \in Bundles, n \in Names : More(b) /\ defineValue(b, n, theValue)
  \/ \E b \in Bundles, n \in Names : More(b) /\ defineSelector(b, n, theSelector)
  \/ \E b \in Bundles, n \in Names, t \in ActionTypes : More(b) /\ defineAction(b, n, Str(t))
  \/ \E b \in Bundles, n \in Names, s \in Selectors : More(b) /\ defineView(b, n, s, theView)
  \/ \E b \in Bundles, n \in Names : More(b) /\ addReducer(b, n)
  \/ \E b \in Bundles : More(b) /\ addReducerFn(b)
  \/ \E b \in Bundles : More(b) /\ addEarlyReducer(b)
  \/ \E b \in Bundles : More(b) /\ addLateReducer(b)
  \/ \E b \in Bundles : More(b) /\ addSaga(b)
  \/ \E b \in Bundles : More(b) /\ addEnhancer(b)
  \/ \E b \in Bundles : More(b) /\ defer(b)
  \/ Seal
  \/ InjectAll
  \/ LinkViews
  \/ InjectAllViews
  \/ ComposeReducer
  \/ CreateStore

Spec == Init /\ [][Next]_vars

(* Builders that publish and use names, each calling its own bundle. *)
MoreNames == pc = "build" /\ nCalls < MaxNameCalls

NextNames ==
  \/ MoreNames /\ include(Top)
  \/ builderReturns
  \/ \E names \in UseArgs : MoreNames /\ use(Top, names)
  \/ \E names \in UseArgs : MoreNames /\ pack(Top, names)
  \/ \E n \in Names : MoreNames /\ defineValue(Top, n, theValue)
  \/ \E n \in Names : MoreNames /\ defineSelector(Top, n, theSelector)
  \/ \E n \in Names, t \in ActionTypes : MoreNames /\ defineAction(Top, n, Str(t))
  \/ \E n \in Names, s \in Selectors : MoreNames /\ defineView(Top, n, s, theView)
  \/ \E n \in Names : MoreNames /\ addReducer(Top, n)
  \/ Seal
  \/ InjectAll
  \/ LinkViews
  \/ InjectAllViews
  \/ ComposeReducer
  \/ CreateStore

SpecNames == Init /\ [][NextNames]_vars

(* Builders that define actions and add reducers, each calling its own     *)
(* bundle; every action name is defined with a type of its own.            *)
TypeOf == [n \in Names |-> IF n = "a" THEN "T1" ELSE "T2"]

(* The actions dispatched: one of a type an action name is defined with,   *)
(* and the store's own initial action, whose type no name is defined with. *)
DispatchTypes == {Str(TypeOf["a"]), Str(InitType)}

MoreReducers == pc = "build" /\ nCalls < MaxReducerCalls

NextReducers ==
  \/ MoreReducers /\ include(Top)
  \/ builderReturns
  \/ \E n \in Names : MoreReducers /\ defineAction(Top, n, Str(TypeOf[n]))
  \/ \E n \in Names : MoreReducers /\ addReducer(Top, n)
  \/ MoreReducers /\ addReducerFn(Top)
  \/ MoreReducers /\ addEarlyReducer(Top)
  \/ MoreReducers /\ addLateReducer(Top)
  \/ Seal
  \/ InjectAll
  \/ LinkViews
  \/ InjectAllViews
  \/ ComposeReducer
  \/ CreateStore
  \/ \E t \in DispatchTypes : Dispatch(t)

SpecReducers == Init /\ [][NextReducers]_vars

(* Builders that defer callbacks and add enhancers, each calling its own   *)
(* bundle, and the callers of finalize.                                    *)
FinalizeArgs == {<<>>, <<"store">>}

MoreFinal == pc = "build" /\ nCalls < MaxFinalCalls

NextFinal ==
  \/ MoreFinal /\ include(Top)
  \/ builderReturns
  \/ MoreFinal /\ defer(Top)
  \/ MoreFinal /\ addEnhancer(Top)
  \/ Seal
  \/ InjectAll
  \/ LinkViews
  \/ InjectAllViews
  \/ ComposeReducer
  \/ CreateStore
  \/ \E args \in FinalizeArgs, failing \in 0..MaxFinalCalls : Finalize(args, failing)

SpecFinal == Init /\ [][NextFinal]_vars

(* Builders that add sagas, each calling its own bundle, the callers of    *)
(* start and the sagas it runs, in any interleaving.                       *)
MoreSagas == pc = "build" /\ nCalls < MaxSagaCalls

NextSagas ==
  \/ MoreSagas /\ include(Top)
  \/ builderReturns
  \/ MoreSagas /\ addSaga(Top)
  \/ Seal
  \/ InjectAll
  \/ LinkViews
  \/ InjectAllViews
  \/ ComposeReducer
  \/ CreateStore
  \/ Start
  \/ \E r \in 1..MaxStart, k \in 1..MaxSagaCalls : SagaReturns(r, k)
  \/ \E r \in 1..MaxStart, k \in 1..MaxSagaCalls : SagaThrows(r, k)

SpecSagas == Init /\ [][NextSagas]_vars

(* Builders that keep the bundle they were given: beside the inclusions,   *)
(* every call is made on a bundle whose own builder has returned, while    *)
(* other builders still run or after link has returned; one name serves.   *)
Returned == {b \in Bundles : \A i \in 1..Len(stack) : stack[i] # b}

MoreReturned(b) == nCalls < MaxReturnedCalls \/ nodes[b].sealed

NextReturned ==
  \/ pc = "build" /\ nCalls < MaxReturnedCalls /\ include(Top)
  \/ builderReturns
  \/ \E b \in Returned : MoreReturned(b) /\ include(b)
  \/ \E b \in Returned : MoreReturned(b) /\ use(b, <<"a">>)
  \/ \E b \in Returned : MoreReturned(b) /\ pack(b, <<"a">>)
  \/ \E b \in Returned : MoreReturned(b) /\ defineValue(b, "a", theValue)
  \/ \E b \in Returned : MoreReturned(b) /\ defineSelector(b, "a", theSelector)
  \/ \E b \in Returned : MoreReturned(b) /\ defineAction(b, "a", Str("T1"))
  \/ \E b \in Returned : MoreReturned(b) /\ defineView(b, "a", undefined, theView)
  \/ \E b \in Returned : MoreReturned(b) /\ addReducer(b, "a")
  \/ \E b \in Returned : MoreReturned(b) /\ addReducerFn(b)
  \/ \E b \in Returned : MoreReturned(b) /\ addEarlyReducer(b)
  \/ \E b \in Returned : MoreReturned(b) /\ addLateReducer(b)
  \/ \E b \in Returned : MoreReturned(b) /\ addSaga(b)
  \/ \E b \in Returned : MoreReturned(b) /\ addEnhancer(b)
  \/ \E b \in Returned : MoreReturned(b) /\ defer(b)
  \/ Seal
  \/ InjectAll
  \/ LinkViews
  \/ InjectAllViews
  \/ ComposeReducer
  \/ CreateStore

SpecReturned == Init /\ [][NextReturned]_vars

(* Builders that add early and late reducers, each calling its own bundle, *)
(* so that link composes chains of bundles with and without reducers.      *)
MoreCompose == pc = "build" /\ nCalls < MaxComposeCalls

NextCompose ==
  \/ MoreCompose /\ include(Top)
  \/ builderReturns
  \/ MoreCompose /\ addReducerFn(Top)
  \/ MoreCompose /\ addEarlyReducer(Top)
  \/ MoreCompose /\ addLateReducer(Top)
  \/ Seal
  \/ InjectAll
  \/ LinkViews
  \/ InjectAllViews
  \/ ComposeReducer
  \/ CreateStore
  \/ Dispatch(Str(InitType))

SpecCompose == Init /\ [][NextCompose]_vars

-----------------------------------------------------------------------------
(* Names, publications and action types *)

UsedPairs == UsePairs(useQueue)
Resolved == pc \in {"reduce", "enhance", "linked"}
ViewWalk == Walk(rootBundle, "views")

(* C1: when some bundle has declared the use of a name (by use, by pack or *)
(* by addReducer(name, reducer)) that no bundle publishes, link fails in   *)
(* dependency resolution: it never gets past the two injectAll passes, so  *)
(* never returns a store.                                                  *)
C1_UnresolvedUseFailsLink ==
  Resolved => \A i \in 1..Len(UsedPairs) : Has(globalScope, UsedPairs[i].name)

(* A call that publishes `name` at once. *)
PublishCall(b, name) ==
  \/ defineValue(b, name, theValue)
  \/ defineSelector(b, name, theSelector)
  \/ \E t \in ActionTypes : defineAction(b, name, Str(t))

(* The view descriptor whose publication is the second one of its name. *)
SecondPublication(i) ==
  \/ Has(globalScope, ViewWalk[i].entry.name)
  \/ \E j \in 1..(i - 1) : ViewWalk[j].entry.name = ViewWalk[i].entry.name

(* The selector of a view descriptor does not resolve to a function. *)
SelectorFails(item) ==
  LET given == item.entry.selector
      locals == scopes[nodes[item.bundle].locals]
  IN /\ given # undefined
     /\ IF given.typeof = "string"
        THEN SafeGetThrows(locals, given.id) \/ SafeGet(locals, given.id).typeof # "function"
        ELSE given.typeof # "function"

(* Once published, a name keeps its value and its type. *)
PublishedOnce ==
  \A n \in DOMAIN globalScope :
    /\ n \in DOMAIN globalScope' /\ globalScope'[n] = globalScope[n]
    /\ n \in DOMAIN typeMap /\ n \in DOMAIN typeMap' /\ typeMap'[n] = typeMap[n]

(* C2 as stated: the second publication of a name, by defineValue,         *)
(* defineSelector, defineAction or a view of defineView, always makes link *)
(* fail with the name-conflict error, and a published name keeps its value *)
(* and type.                                                               *)
C2_SecondPublicationIsNameConflict ==
  [][/\ pc = "build" => \A b \in Bundles, n \in DOMAIN globalScope :
          PublishCall(b, n) => pc' = "failed" /\ thrown' = "linker conflict"
     /\ (pc = "linkViews" /\ \E i \in 1..Len(ViewWalk) : SecondPublication(i))
          => pc' = "failed" /\ thrown' = "linker conflict"
     /\ PublishedOnce]_vars

(* C2 amended: the second publication of a name always makes link fail and *)
(* publishes nothing; the error is the name conflict, except that a        *)
(* defineAction whose action type is registered already fails with the     *)
(* action type conflict, and that view linking fails on the selector of a  *)
(* view it links before it reaches the second publication; a published     *)
(* name keeps its value and type.                                          *)
C2_SecondPublicationFails ==
  [][/\ pc = "build" => \A b \in Bundles, n \in DOMAIN globalScope :
          PublishCall(b, n) =>
            /\ pc' = "failed"
            /\ \/ thrown' = "linker conflict"
               \/ /\ thrown' = "action type conflict"
                  /\ \E t \in DOMAIN nameForActionType : defineAction(b, n, t)
     /\ pc = "linkViews" => \A i \in 1..Len(ViewWalk) :
          SecondPublication(i) =>
            /\ pc' = "failed"
            /\ \/ thrown' = "linker conflict"
               \/ /\ thrown' \in {"undeclared dependency", "invalid selector"}
                  /\ \E j \in 1..i : SelectorFails(ViewWalk[j])
     /\ PublishedOnce]_vars

C2_Witness ==
  /\ pc = "failed"
  /\ thrown = "linker conflict"
  /\ \E i \in 1..Len(ViewWalk) : Has(globalScope, ViewWalk[i].entry.name)

(* C3: a defineAction whose action type string is registered already fails *)
(* with the action type conflict, whatever its name, and the registry keeps*)
(* the declaration it holds for every type.                                *)
C3_ActionTypeDeclaredOnce ==
  [][\A t \in DOMAIN nameForActionType :
       /\ t \in DOMAIN nameForActionType'
       /\ nameForActionType'[t] = nameForActionType[t]
       /\ \A b \in Bundles, n \in Names :
            defineAction(b, n, t) => pc' = "failed" /\ thrown' = "action type conflict"]_vars

C3_Witness ==
  /\ pc = "failed"
  /\ thrown = "action type conflict"
  /\ \E t \in DOMAIN nameForActionType : ~Has(globalScope, "b") \/ globalScope["b"] # t

-----------------------------------------------------------------------------
(* Sealing *)

Sealed == pc \in {"inject", "linkViews", "injectViews", "reduce", "enhance", "linked"}

(* Any of the declaration calls of a builder, on bundle b. *)
DeclarationCall(b) ==
  \/ include(b)
  \/ \E names \in UseArgs : use(b, names) \/ pack(b, names)
  \/ \E n \in Names : defineValue(b, n, theValue) \/ defineSelector(b, n, theSelector)
  \/ \E n \in Names, t \in ActionTypes : defineAction(b, n, Str(t))
  \/ \E n \in Names, sel \in Selectors : defineView(b, n, sel, theView)
  \/ \E n \in Names : addReducer(b, n)
  \/ addReducerFn(b) \/ addEarlyReducer(b) \/ addLateReducer(b)
  \/ addSaga(b) \/ addEnhancer(b) \/ defer(b)

(* C4: from the moment link has sealed the tree every bundle of it, at any *)
(* depth, is sealed, and every declaration call made afterwards on any     *)
(* bundle throws the sealed error and changes neither the bundles (their   *)
(* lists and children) nor the global scope, the type map, the action type *)
(* registry, the enhancers, the use queue or any local scope.              *)
C4_SealedTreeRejectsCalls ==
  /\ [](Sealed => \A b \in Bundles : nodes[b].sealed)
  /\ [][Sealed => \A b \in Bundles :
          DeclarationCall(b) =>
            /\ thrown' = "sealed"
            /\ UNCHANGED <<nodes, scopes, globalScope, typeMap, nameForActionType,
                           enhancers, useQueue>>]_vars

C4_Witness ==
  /\ pc = "linked"
  /\ thrown = "sealed"
  /\ \E b \in Bundles : b # rootBundle /\ Children(b) # <<>>

-----------------------------------------------------------------------------
(* The composed reducer *)

(* What one application of the store reducer appended to the state: the    *)
(* elementary reducers that ran, in the order they ran.                    *)
Ran(d) == SubSeq(d.after, Len(d.before) + 1, Len(d.after))
(* The application of the store reducer that led to this state; the ones  *)
(* before it led to the states before, and the tree is the same in all.   *)
Dispatched == IF dispatches = <<>> THEN {} ELSE {Last(dispatches)}
RanBefore(d, x, y) ==
  \E i, j \in 1..Len(Ran(d)) : i < j /\ Ran(d)[i] = x /\ Ran(d)[j] = y
RanNext(d, x, y) ==
  \E i \in 1..(Len(Ran(d)) - 1) : Ran(d)[i] = x /\ Ran(d)[i + 1] = y

(* The functions a bundle declared, by the number of the declaring call. *)
EarlyId(b, i) == nodes[b].earlyReducers[i].steps[1].id
LateId(b, i) == nodes[b].lateReducers[i].steps[1].id
ActionId(b, i) == nodes[b].actionReducers[i].reducer.steps[1].id
EarlyOf(b) == {EarlyId(b, i) : i \in 1..Len(nodes[b].earlyReducers)}
LateOf(b) == {LateId(b, i) : i \in 1..Len(nodes[b].lateReducers)}
EarlyIds == UNION {EarlyOf(b) : b \in Bundles}
LateIds == UNION {LateOf(b) : b \in Bundles}
ActionIds == UNION {{ActionId(b, i) : i \in 1..Len(nodes[b].actionReducers)} : b \in Bundles}

(* The reducers added with addReducer(name, reducer) for the action whose  *)
(* published type is `type`.                                               *)
ActionName(b, i) == nodes[b].actionReducers[i].name
IsFor(b, i, type) ==
  /\ Has(typeMap, ActionName(b, i)) /\ typeMap[ActionName(b, i)] = "action"
  /\ globalScope[ActionName(b, i)] = type
ActionIdsFor(type) ==
  UNION {{ActionId(b, i) : i \in {k \in 1..Len(nodes[b].actionReducers) : IsFor(b, k, type)}}
         : b \in Bundles}

(* The bundles included by b, directly or not. *)
RECURSIVE Included(_)
Included(b) ==
  UNION {{Children(b)[i]} \cup Included(Children(b)[i]) : i \in 1..Len(Children(b))}
Subtree(b) == {b} \cup Included(b)

(* C5: for every action type the reducers added for it with                *)
(* addReducer(name, reducer), anywhere in the tree, are applied in the     *)
(* order in which the addReducer calls were made.                          *)
C5_ActionReducersRunInCallOrder ==
  \A d \in Dispatched : \A x, y \in ActionIdsFor(d.type) :
    x < y => RanBefore(d, x, y)

(* C6: when a bundle has added two reducers for one action name and an     *)
(* action of that type is dispatched, the reducer added first runs and the *)
(* next reducer the bundle added for that name runs on its output.         *)
TwoForAction(d, b, i, j) ==
  /\ i < j
  /\ IsFor(b, i, d.type)
  /\ ActionName(b, j) = ActionName(b, i)
  /\ \A k \in (i + 1)..(j - 1) : ActionName(b, k) # ActionName(b, i)

C7_EarlyActionLate ==
  \A d \in Dispatched :
    LET ran == Ran(d)
        early == EarlyIds
        action == ActionIdsFor(d.type)
        late == LateIds
    IN /\ {ran[i] : i \in 1..Len(ran)} = early \cup action \cup late
       /\ Len(ran) = Cardinality(early \cup action \cup late)
       /\ \A i, j \in 1..Len(ran) :
            i < j =>
              /\ ~(ran[i] \in late /\ ran[j] \in early \cup action)
              /\ ~(ran[i] \in action /\ ran[j] \in early)

C7_Witness ==
  \E d \in Dispatched :
    EarlyIds # {} /\ ActionIdsFor(d.type) # {} /\ LateIds # {}

(* C8: in every application of the store reducer a bundle's early reducers *)
(* run in the order they were added, before the early reducers of every    *)
(* bundle it includes, directly or not, and the early reducers of a bundle *)
(* included first run before those of a sibling included later.            *)
C8_EarlyOrder ==
  \A d \in Dispatched, b \in Bundles :
    /\ \A i, j \in 1..Len(nodes[b].earlyReducers) :
         i < j => RanBefore(d, EarlyId(b, i), EarlyId(b, j))
    /\ \A c \in Included(b) : \A x \in EarlyOf(b), y \in EarlyOf(c) : RanBefore(d, x, y)
    /\ \A i, j \in 1..Len(Children(b)) :
         i < j => \A c1 \in Subtree(Children(b)[i]), c2 \in Subtree(Children(b)[j]) :
                    \A x \in EarlyOf(c1), y \in EarlyOf(c2) : RanBefore(d, x, y)

C8_Witness ==
  /\ dispatches # <<>>
  /\ \E b \in Bundles : /\ Len(Children(b)) = 2
                        /\ EarlyOf(Children(b)[1]) # {}
                        /\ EarlyOf(Children(b)[2]) # {}

(* C9: in every application of the store reducer the late reducers of a    *)
(* bundle included later run before those of a sibling included first, the *)
(* late reducers of every included bundle run before those of the bundle   *)
(* including it, and a function passed to the one-argument addReducer      *)
(* takes the place a function passed to addLateReducer by the same call    *)
(* would take: among the late reducers of its bundle, the ones added later *)
(* run first.                                                              *)
C9_LateOrder ==
  \A d \in Dispatched, b \in Bundles :
    /\ \A i, j \in 1..Len(Children(b)) :
         i < j => \A c1 \in Subtree(Children(b)[i]), c2 \in Subtree(Children(b)[j]) :
                    \A x \in LateOf(c1), y \in LateOf(c2) : RanBefore(d, y, x)
    /\ \A c \in Included(b) : \A x \in LateOf(b), y \in LateOf(c) : RanBefore(d, y, x)
    /\ \A i, j \in 1..Len(nodes[b].lateReducers) :
         i < j => RanBefore(d, LateId(b, j), LateId(b, i))
    /\ \A i \in 1..Len(nodes[b].earlyReducers) :
         nodes[b].earlyReducers[i].steps[1].via = "addEarlyReducer"

C9_Witness ==
  /\ dispatches # <<>>
  /\ \E b \in Bundles :
       /\ Len(Children(b)) = 2
       /\ \E i \in 1..Len(nodes[Children(b)[1]].lateReducers) :
            nodes[Children(b)[1]].lateReducers[i].steps[1].via = "addReducer"
       /\ \E i \in 1..Len(nodes[Children(b)[2]].lateReducers) :
            nodes[Children(b)[2]].lateReducers[i].steps[1].via = "addLateReducer"

(* C10 as stated: an action whose type has no reducer added with           *)
(* addReducer(name, reducer) leaves the state as it was, whatever the tree.*)
C10_UnregisteredTypeKeepsState ==
  \A d \in Dispatched : ActionIdsFor(d.type) = {} => d.after = d.before

(* C10 amended: an action whose type has no reducer added with             *)
(* addReducer(name, reducer) is no error and runs no action reducer: the   *)
(* state returned is the state passed in after the early and the late      *)
(* reducers of the tree, each run once, and so is the state passed in when *)
(* the tree has neither.                                                   *)
C10_UnregisteredTypeRunsNoActionReducer ==
  \A d \in Dispatched :
    ActionIdsFor(d.type) = {} =>
      LET ran == Ran(d)
          unconditional == EarlyIds \cup LateIds
      IN /\ {ran[i] : i \in 1..Len(ran)} = unconditional
         /\ Len(d.after) = Len(d.before) + Cardinality(unconditional)
         /\ SubSeq(d.after, 1, Len(d.before)) = d.before
         /\ unconditional = {} => d.after = d.before

C10_Witness ==
  \E d \in Dispatched :
    /\ ActionIdsFor(d.type) = {}
    /\ ActionIds # {}
    /\ EarlyIds # {}
    /\ d.after # d.before

-----------------------------------------------------------------------------
(* Views and local views *)

(* The use queue pairs the local view (or pack target) t with name n. *)
UsedBy(t, n) ==
  \E i \in 1..Len(useQueue) :
    /\ useQueue[i].target = t
    /\ \E j \in 1..Len(useQueue[i].names) : useQueue[i].names[j] = n

(* Bundle b has declared the use of name n for its own local view: by use, *)
(* or through a define call or addReducer(name, reducer), which call use.  *)
Declares(b, n) == UsedBy(nodes[b].locals, n)

ViewsLinked == pc \in {"injectViews", "reduce", "enhance", "linked"}

(* C11: once view linking has succeeded, every view declared with a        *)
(* selector name has a bundle that declared the use of that name, the name *)
(* is published as a value, selector or action whose value is a function,  *)
(* and the view published is the declared view connected with that         *)
(* function; whatever its selector, it is published as a view labelled     *)
(* View(name).  So link fails on a selector name the view's bundle did not *)
(* declare, also when another bundle published it, and on one whose value  *)
(* is no function.                                                         *)
C11_ViewSelectorFromLocals ==
  ViewsLinked =>
    \A i \in 1..Len(ViewWalk) :
      LET item == ViewWalk[i]
          name == item.entry.name
          given == item.entry.selector
      IN /\ Has(globalScope, name)
         /\ typeMap[name] = "view"
         /\ globalScope[name].displayName = <<"View(", name, ")">>
         /\ globalScope[name].id = item.entry.view.id
         /\ given.typeof = "string" =>
              /\ Declares(item.bundle, given.id)
              /\ Has(globalScope, given.id)
              /\ typeMap[given.id] \in {"value", "selector", "action"}
              /\ globalScope[given.id].typeof = "function"
              /\ globalScope[name].connected = globalScope[given.id].id
         /\ given.typeof = "function" => globalScope[name].connected = given.id
         /\ given = undefined => globalScope[name].connected = ""

C11_Witness ==
  /\ pc = "linked"
  /\ \E i \in 1..Len(ViewWalk) :
       /\ ViewWalk[i].entry.selector.typeof = "string"
       /\ ViewWalk[i].bundle # rootBundle
       /\ globalScope[ViewWalk[i].entry.name].connected = theSelector.id

(* The passes by which a published name has not yet reached a local view:  *)
(* the views are injected by the second pass.                              *)
BeforeInjection(n) ==
  \/ pc \in {"build", "seal", "inject"}
  \/ pc \in {"linkViews", "injectViews"} /\ typeMap[n] = "view"

LocalsOf(b) == scopes[nodes[b].locals]

(* C12 as stated: a published name a bundle declared the use of cannot be  *)
(* read from the bundle's local view before resolution, the read fails;    *)
(* once link has returned the read yields the published value.             *)
C12_UsedNameReadFailsUntilResolved ==
  \A b \in Bundles, n \in Names :
    Declares(b, n) /\ Has(globalScope, n) =>
      /\ BeforeInjection(n) => SafeGetThrows(LocalsOf(b), n)
      /\ pc = "linked" =>
           ~SafeGetThrows(LocalsOf(b), n) /\ SafeGet(LocalsOf(b), n) = globalScope[n]

(* C12 amended: before resolution the bundle's local view does not hold    *)
(* the name: the read fails where Proxy exists and yields undefined where  *)
(* it does not; once link has returned the read yields the published       *)
(* value.                                                                  *)
C12_UsedNameAbsentUntilResolved ==
  \A b \in Bundles, n \in Names :
    Declares(b, n) /\ Has(globalScope, n) =>
      /\ BeforeInjection(n) =>
           /\ ~Has(LocalsOf(b), n)
           /\ hasProxy => SafeGetThrows(LocalsOf(b), n)
           /\ ~hasProxy => ~SafeGetThrows(LocalsOf(b), n) /\ SafeGet(LocalsOf(b), n) = undefined
      /\ pc = "linked" =>
           ~SafeGetThrows(LocalsOf(b), n) /\ SafeGet(LocalsOf(b), n) = globalScope[n]

C12_Witness ==
  /\ pc = "linked"
  /\ \E b, c \in Bundles :
       /\ b # c
       /\ Declares(b, "a") /\ Declares(c, "a")
       /\ SafeGet(LocalsOf(b), "a") = theValue
       /\ SafeGet(LocalsOf(c), "a") = theValue

(* C13 as stated: after a successful link a bundle's local view holds only *)
(* names the bundle declared, each with its published value, and reading   *)
(* any other name fails with the undeclared-dependency error.              *)
C13_UndeclaredReadFails ==
  pc = "linked" =>
    \A b \in Bundles, n \in Names :
      /\ Has(LocalsOf(b), n) =>
           Declares(b, n) /\ Has(globalScope, n) /\ LocalsOf(b)[n] = globalScope[n]
      /\ ~Declares(b, n) => SafeGetThrows(LocalsOf(b), n)

(* C13 amended: after a successful link a bundle's local view holds only   *)
(* names the bundle declared, each with its published value; a name the    *)
(* bundle did not declare is not in it, whoever published or used it, and  *)
(* reading it fails with the undeclared-dependency error where Proxy       *)
(* exists and yields undefined where it does not.                          *)
C13_LocalsHoldDeclaredNamesOnly ==
  pc = "linked" =>
    \A b \in Bundles, n \in Names :
      /\ Has(LocalsOf(b), n) =>
           Declares(b, n) /\ Has(globalScope, n) /\ LocalsOf(b)[n] = globalScope[n]
      /\ ~Declares(b, n) =>
           /\ ~Has(LocalsOf(b), n)
           /\ hasProxy => SafeGetThrows(LocalsOf(b), n)
           /\ ~hasProxy => ~SafeGetThrows(LocalsOf(b), n) /\ SafeGet(LocalsOf(b), n) = undefined

C13_Witness ==
  /\ pc = "linked"
  /\ \E b, c \in Bundles :
       /\ b # c
       /\ Declares(c, "a") /\ Has(LocalsOf(c), "a")
       /\ ~Declares(b, "a") /\ Has(LocalsOf(b), "b")

-----------------------------------------------------------------------------
(* Deferred callbacks *)

(* The callbacks a bundle registered with defer, by the number of the      *)
(* registering call.                                                       *)
DefersOf(b) == {nodes[b].defers[i] : i \in 1..Len(nodes[b].defers)}
DeferIds == UNION {DefersOf(b) : b \in Bundles}

Finalized == {finalized[i] : i \in 1..Len(finalized)}
RanIn(f, x) == \E i \in 1..Len(f.ran) : f.ran[i].callback = x
TimesIn(f, x) == Cardinality({i \in 1..Len(f.ran) : f.ran[i].callback = x})

(* In the call f of finalize callback y ran only after callback x had. *)
RanAfter(f, x, y) ==
  RanIn(f, y) =>
    \E i, j \in 1..Len(f.ran) : i < j /\ f.ran[i].callback = x /\ f.ran[j].callback = y

(* The order of a depth-first walk, own callbacks first. *)
DeferOrder(f) ==
  \A b \in Bundles :
    /\ \A i, j \in 1..Len(nodes[b].defers) :
         i < j => RanAfter(f, nodes[b].defers[i], nodes[b].defers[j])
    /\ \A c \in Included(b) : \A x \in DefersOf(b), y \in DefersOf(c) : RanAfter(f, x, y)
    /\ \A i, j \in 1..Len(Children(b)) :
         i < j => \A c1 \in Subtree(Children(b)[i]), c2 \in Subtree(Children(b)[j]) :
                    \A x \in DefersOf(c1), y \in DefersOf(c2) : RanAfter(f, x, y)

(* C14 as stated: a callback registered with defer runs exactly once per   *)
(* link, after link's steps, in depth-first order.                         *)
C14_DeferredRunOncePerLink ==
  /\ finalized # <<>> => pc = "linked"
  /\ \A f \in Finalized : DeferOrder(f)
  /\ \A x \in DeferIds :
       Cardinality({i \in 1..Len(finalized) : RanIn(finalized[i], x)}) <= 1

(* C14 amended: link runs no deferred callback; every call of finalize,    *)
(* which exists only once link has returned, so after sealing, both        *)
(* resolution passes, view linking and the assembly of the reducer, runs   *)
(* the callbacks in depth-first order, a bundle's own in registration      *)
(* order before those of the bundles it includes, until one throws: each   *)
(* at most once, and each exactly once when none throws.                   *)
C14_DeferredRunOncePerFinalize ==
  /\ finalized # <<>> => pc = "linked"
  /\ \A f \in Finalized :
       /\ DeferOrder(f)
       /\ \A x \in DeferIds : TimesIn(f, x) <= 1
       /\ \A i \in 1..Len(f.ran) : f.ran[i].callback \in DeferIds
       /\ ~f.threw => \A x \in DeferIds : TimesIn(f, x) = 1

C14_Witness ==
  /\ Len(finalized) = 2
  /\ ~finalized[1].threw /\ ~finalized[2].threw
  /\ \E b \in Bundles : Len(nodes[b].defers) = 2
  /\ \E b \in Bundles : b # rootBundle /\ DefersOf(b) # {} /\ DefersOf(rootBundle) # {}

(* C15: finalize(...args) calls every deferred callback of the tree, and   *)
(* each callback receives the arguments finalize was called with.          *)
C15_FinalizeForwardsArguments ==
  \A f \in Finalized :
    ~f.threw =>
      /\ \A x \in DeferIds : RanIn(f, x)
      /\ \A i \in 1..Len(f.ran) : f.ran[i].args = f.args

-----------------------------------------------------------------------------
(* Enhancers *)

(* C16: every addEnhancer call that returns, on whatever bundle, puts its  *)
(* enhancer last in the linker's list, and the store enhancer link builds  *)
(* composes the saga middleware's enhancer followed by that list,          *)
(* unchanged: the enhancers in the order of the calls that added them,     *)
(* each once.                                                              *)
C16_EnhancersInCallOrder ==
  [][/\ \A b \in Bundles :
          addEnhancer(b) /\ thrown' = "none" => enhancers' = Append(enhancers, nCalls')
     /\ (\A b \in Bundles : ~addEnhancer(b)) => enhancers' = enhancers
     /\ pc' = "linked" =>
          /\ enhancer' = <<sagaMiddleware>> \o enhancers'
          /\ \A i, j \in 2..Len(enhancer') : i < j => enhancer'[i] < enhancer'[j]]_vars

C16_Witness ==
  /\ pc = "linked"
  /\ Len(enhancer) = 3
  /\ Len(nodes) > 1
  /\ enhancer[3] > enhancer[2] + 1

-----------------------------------------------------------------------------
(* Sagas *)

SagaIds == UNION {{nodes[b].sagas[i] : i \in 1..Len(nodes[b].sagas)} : b \in Bundles}

(* C17: every root task start() returned runs each saga added anywhere in  *)
(* the tree as one task, all started together; it is resolved only when    *)
(* every one of them has returned, and when a saga throws it is rejected   *)
(* with that saga's error.                                                 *)
C17_RootTaskRunsEverySaga ==
  \A r \in 1..Len(runs) :
    LET tasks == runs[r].tasks
        Failed == {k \in 1..Len(tasks) : tasks[k].state = "failed"}
    IN /\ \A x \in SagaIds : Cardinality({k \in 1..Len(tasks) : tasks[k].saga = x}) = 1
       /\ \A k \in 1..Len(tasks) : tasks[k].saga \in SagaIds
       /\ runs[r].done = "pending" =>
            /\ \A k \in 1..Len(tasks) : tasks[k].state \in {"running", "done"}
            /\ \E k \in 1..Len(tasks) : tasks[k].state = "running"
       /\ runs[r].done = "resolved" => \A k \in 1..Len(tasks) : tasks[k].state = "done"
       /\ \A k \in Failed : runs[r].done = "rejected" /\ runs[r].error = tasks[k].saga
       /\ runs[r].done = "rejected" => Cardinality(Failed) = 1

C17_Witness ==
  /\ Len(nodes) = 3
  /\ Len(Children(rootBundle)) = 2
  /\ nodes[2].sagas # <<>> /\ nodes[3].sagas # <<>>
  /\ Len(runs) = 1
  /\ runs[1].done = "resolved"

-----------------------------------------------------------------------------
(* Calls after a builder has returned *)

(* A builder starts only for the bundle an include call has just created,  *)
(* within that call: once per inclusion.                                   *)
BuilderOncePerInclusion ==
  \A b \in 1..Len(nodes') :
    (\E i \in 1..Len(stack') : stack'[i] = b) /\ (\A i \in 1..Len(stack) : stack[i] # b) =>
      /\ b = Len(nodes) + 1
      /\ Len(nodes') = Len(nodes) + 1
      /\ \E p \in Bundles : include(p) /\ Last(Children(p)') = b

(* C18 as stated: a builder is called once per inclusion, and every        *)
(* declaration call on a bundle whose own builder has returned fails, also *)
(* while the root builder is still running.                                *)
C18_CallsAfterOwnBuilderFail ==
  [][/\ BuilderOncePerInclusion
     /\ \A b \in Returned : DeclarationCall(b) => thrown' = "sealed"]_vars

(* C18 amended: a builder is called once per inclusion; no bundle is       *)
(* sealed while the root builder runs, so a declaration call on a bundle   *)
(* whose own builder has returned does not fail as sealed before the root  *)
(* builder has returned, and every one made after link has returned does.  *)
C18_CallsAfterRootBuilderFail ==
  [][/\ BuilderOncePerInclusion
     /\ pc = "build" => \A b \in Bundles : ~nodes[b].sealed
     /\ \A b \in Returned :
          DeclarationCall(b) =>
            IF pc = "build" THEN thrown' # "sealed"
            ELSE thrown' = "sealed" /\ nodes' = nodes /\ UNCHANGED linkerVars]_vars

C18_Witness ==
  /\ pc = "build"
  /\ thrown = "none"
  /\ \E b \in Returned : nodes[b].defers # <<>> \/ Declares(b, "a")

-----------------------------------------------------------------------------
(* Reducers of names and the two passes *)

(* The action types under which the action map holds the reducer of the    *)
(* declaration call number id.                                             *)
InstalledUnder(id) ==
  {t \in DOMAIN actionMap : \E k \in 1..Len(actionMap[t].steps) : actionMap[t].steps[k].id = id}

(* C19: when link gets past the action map, every reducer added with       *)
(* addReducer(name, reducer) has a published name and is installed in the  *)
(* chain of the value published under that name, and of no other key; so   *)
(* link has failed when the name of one is published by no bundle.         *)
C19_ReducerInstalledUnderPublishedType ==
  pc \in {"enhance", "linked"} =>
    \A b \in Bundles : \A i \in 1..Len(nodes[b].actionReducers) :
      /\ Has(globalScope, ActionName(b, i))
      /\ InstalledUnder(ActionId(b, i)) = {globalScope[ActionName(b, i)]}

ViewNames == {ViewWalk[i].entry.name : i \in 1..Len(ViewWalk)}

(* C20: no local view holds a name before the first pass; between the two  *)
(* passes the local views hold exactly the used names published as value,  *)
(* selector or action; once the second pass is over they hold exactly the  *)
(* used names published in any category, the views included, whoever       *)
(* defined the view; what a local view holds is always the published       *)
(* value; and no pass fails on a name that is declared as a view.          *)
C20_TwoPhaseResolution ==
  \A t \in 1..Len(scopes), n \in Names :
    /\ pc \in {"build", "seal", "inject"} => ~Has(scopes[t], n)
    /\ pc \in {"linkViews", "injectViews"} =>
         (Has(scopes[t], n) <=>
            UsedBy(t, n) /\ typeMapGet(n) \in {"value", "selector", "action"})
    /\ pc \in {"reduce", "enhance", "linked"} =>
         (Has(scopes[t], n) <=> UsedBy(t, n) /\ Has(globalScope, n))
    /\ Has(scopes[t], n) => Has(globalScope, n) /\ scopes[t][n] = globalScope[n]
    /\ pc = "failed" /\ thrown = "undefined dependency" =>
         \E m \in Names : m \notin ViewNames /\ ~Has(globalScope, m)

C20_Witness ==
  /\ pc = "linked"
  /\ \E i \in 1..Len(ViewWalk) :
       LET name == ViewWalk[i].entry.name
       IN /\ ViewWalk[i].bundle # rootBundle
          /\ Declares(rootBundle, name)
          /\ LocalsOf(rootBundle)[name] = globalScope[name]
          /\ LocalsOf(ViewWalk[i].bundle)[name] = globalScope[name]

-----------------------------------------------------------------------------
(* The reducer combinators *)

(* The operands link and the bundles hand to the combinators: no reducer,  *)
(* the reducers the builders passed, the chains of the bundles, link's     *)
(* actionReducer and the reducer of the store.                             *)
Operands ==
  {null, actionReducer, reducer}
    \cup {earlyReducer(b) : b \in Bundles}
    \cup {lateReducer(b) : b \in Bundles}
    \cup UNION {{nodes[b].earlyReducers[i] : i \in 1..Len(nodes[b].earlyReducers)}
                  : b \in Bundles}
    \cup UNION {{nodes[b].lateReducers[i] : i \in 1..Len(nodes[b].lateReducers)}
                  : b \in Bundles}

Absent(r) == r.null

States == {<<>>, <<1>>, <<2, 1>>}

(* r is a function that returns its state argument, whatever the action *)
IdentityTransition(r) ==
  /\ ~Absent(r)
  /\ \A state \in States, type \in DispatchTypes :
       Run(r.steps, actionMap, state, type) = state

(* with exactly one of f and g absent, r is the other one *)
OtherOperand(f, g, r) ==
  /\ Absent(f) /\ ~Absent(g) => r = g
  /\ ~Absent(f) /\ Absent(g) => r = f

(* C21 as stated: directCompose and reverseCompose return the other        *)
(* operand when exactly one operand is absent, and a function that returns *)
(* its state argument unchanged when both operands are absent.             *)
C21_BothAbsentGivesIdentityTransition ==
  \A f \in Operands, g \in Operands :
    /\ OtherOperand(f, g, directCompose(f, g))
    /\ OtherOperand(f, g, reverseCompose(f, g))
    /\ Absent(f) /\ Absent(g) =>
         /\ IdentityTransition(directCompose(f, g))
         /\ IdentityTransition(reverseCompose(f, g))

(* C21: directCompose and reverseCompose return the other operand when     *)
(* exactly one operand is absent, and an absent operand, not a function,   *)
(* when both are absent; the reducer link gives the store is a function    *)
(* all the same, and with no reducer added it returns its state argument.  *)
C21_BothAbsentGivesAbsent ==
  /\ \A f \in Operands, g \in Operands :
       /\ OtherOperand(f, g, directCompose(f, g))
       /\ OtherOperand(f, g, reverseCompose(f, g))
       /\ Absent(f) /\ Absent(g) =>
            /\ Absent(directCompose(f, g))
            /\ Absent(reverseCompose(f, g))
  /\ pc \in {"enhance", "linked"} =>
       /\ ~Absent(reducer)
       /\ Absent(earlyReducer(rootBundle)) /\ Absent(lateReducer(rootBundle)) =>
            IdentityTransition(reducer)

(* link has composed the reducer of a tree in which the early chain of an  *)
(* included bundle and of the root are absent and the late chain is not.   *)
C21_Witness ==
  /\ pc = "linked"
  /\ Len(nodes) >= 2
  /\ Absent(earlyReducer(2))
  /\ Absent(earlyReducer(rootBundle))
  /\ ~Absent(lateReducer(rootBundle))
  /\ ~Absent(reducer)
  /\ dispatches # <<>>

-----------------------------------------------------------------------------
(* The action type registry and the namespace *)

(* C22: the registry maps an action type to a name only if the namespace   *)
(* holds that name in the category action with that type as its value,     *)
(* after every declaration call, a defineAction that failed with a name    *)
(* conflict or a type conflict included.                                   *)
C22_RegistryAgreesWithNamespace ==
  \A t \in DOMAIN nameForActionType :
    LET n == nameForActionType[t]
    IN /\ Has(globalScope, n)
       /\ typeMapGet(n) = "action"
       /\ globalScope[n] = t

====
